---- MODULE Spec2Model ----
(***************************************************************************)
(* Model of the feed-to-story pipeline of gemini-2-5-pro-news.             *)
(*                                                                         *)
(*   set-based variant     src/gemini-2-5-pro-news/process_feeds.py        *)
(*   exists-check variant  src/process_feeds.py                            *)
(*                                                                         *)
(* Python strings are sequences of one-character strings, so that          *)
(* slugging, truncation, URL splitting, substring and suffix tests are     *)
(* computed character by character as the code computes them.              *)
(***************************************************************************)
EXTENDS Integers, Sequences, FiniteSets, TLC

VARIABLES
    variant,          \* which script runs: "set" or "exists" ("slug": the slugifier alone)
    pc,               \* position of main()
    feedsFileExists,  \* rss_feeds.txt is present
    feedLines,        \* raw lines of rss_feeds.txt
    feed_urls,        \* URLs the feed-list reader yielded
    idx,              \* number of feeds of feed_urls already taken by the for loop
    queue,            \* stories / entries of the current feed not yet handled
    all_stories,      \* set-based main: stories written so far (with file_name)
    used_filenames,   \* set-based main: the used_filenames set
    disk,             \* stories directory: file name -> what was written
    indexFile,        \* index.html: <<>> while absent, else <<its list of entries>>
    exitCode,         \* process exit status, -1 while running
    nwritten,         \* number of story files written (all runs)
    runWritten,       \* number of story files written by the current run
    fetchLog,         \* positions of the feeds whose fetch was attempted in this run
    parsedLog,        \* every story parse_feed returned in this run, in order
    runs,             \* completed runs of the script on this directory
    served,           \* what each feed position answered in the first run
    last              \* the most recent sanitize_filename call and its outcome

vars == <<variant, pc, feedsFileExists, feedLines, feed_urls, idx, queue,
          all_stories, used_filenames, disk, indexFile, exitCode, nwritten,
          runWritten, fetchLog, parsedLog, runs, served, last>>

(***************************************************************************)
(* Strings                                                                 *)
(***************************************************************************)
LowerChars == <<"a", "b", "c", "d", "e", "f", "g", "h", "i", "j", "k", "l", "m", "n", "o", "p", "q", "r", "s", "t", "u", "v", "w", "x", "y", "z">>
UpperChars == <<"A", "B", "C", "D", "E", "F", "G", "H", "I", "J", "K", "L", "M", "N", "O", "P", "Q", "R", "S", "T", "U", "V", "W", "X", "Y", "Z">>
DigitChars == <<"0", "1", "2", "3", "4", "5", "6", "7", "8", "9">>

Range(s) == {s[i] : i \in 1..Len(s)}

LowerSet == Range(LowerChars)
UpperSet == Range(UpperChars)
DigitSet == Range(DigitChars)

IsLower(c) == c \in LowerSet
IsUpper(c) == c \in UpperSet
IsDigit(c) == c \in DigitSet

\* the character class [A-Za-z0-9] of the slug patterns
IsAlnum(c) == IsLower(c) \/ IsUpper(c) \/ IsDigit(c)

\* every character the model uses is ASCII except the accented letter
IsAscii(c) == c # "é"

\* str.lower() on one character
LowerOfUpper == [c \in UpperSet |-> LowerChars[CHOOSE i \in 1..26 : UpperChars[i] = c]]

LowerChar(c) == IF IsUpper(c) THEN LowerOfUpper[c] ELSE c

\* str.lower()
Lower(s) == [i \in 1..Len(s) |-> LowerChar(s[i])]

Min(a, b) == IF a < b THEN a ELSE b
Max(a, b) == IF a > b THEN a ELSE b

\* s[:k], negative k counting from the end as Python does
SliceTo(s, k) ==
    LET n == IF k >= 0 THEN Min(k, Len(s)) ELSE Max(Len(s) + k, 0)
    IN  SubSeq(s, 1, n)

\* s[k:] for 0 <= k
SliceFrom(s, k) == SubSeq(s, Min(k, Len(s)) + 1, Len(s))

\* s.startswith(p)
StartsWith(s, p) == Len(p) <= Len(s) /\ SubSeq(s, 1, Len(p)) = p

\* s.endswith(p)
EndsWith(s, p) == Len(p) <= Len(s) /\ SubSeq(s, Len(s) - Len(p) + 1, Len(s)) = p

\* p in s
Contains(s, p) ==
    \E i \in 0..(Len(s) - Len(p)) : SubSeq(s, i + 1, i + Len(p)) = p

\* s.find(c): 0-based position of the first c, -1 when absent
Find(s, c) ==
    IF \E i \in 1..Len(s) : s[i] = c
    THEN (CHOOSE i \in 1..Len(s) : s[i] = c /\ \A j \in 1..(i - 1) : s[j] # c) - 1
    ELSE -1

\* s.rfind(c)
RFind(s, c) ==
    IF \E i \in 1..Len(s) : s[i] = c
    THEN (CHOOSE i \in 1..Len(s) : s[i] = c /\ \A j \in (i + 1)..Len(s) : s[j] # c) - 1
    ELSE -1

\* s.strip(ch) for a one-character set
RECURSIVE LStripChar(_, _)
LStripChar(s, ch) ==
    IF s # <<>> /\ Head(s) = ch THEN LStripChar(Tail(s), ch) ELSE s

RECURSIVE RStripChar(_, _)
RStripChar(s, ch) ==
    IF s # <<>> /\ s[Len(s)] = ch THEN RStripChar(SubSeq(s, 1, Len(s) - 1), ch) ELSE s

StripChar(s, ch) == RStripChar(LStripChar(s, ch), ch)

\* str.strip(): whitespace at both ends
Strip(s) == StripChar(s, " ")

\* str(n) for n >= 0
RECURSIVE Str(_)
Str(n) ==
    IF n < 10 THEN <<DigitChars[n + 1]>>
    ELSE Str(n \div 10) \o <<DigitChars[(n % 10) + 1]>>

\* a string of n copies of c
Rep(c, n) == [i \in 1..n |-> c]

\* position of a character in code-point order, for comparing file names
CodeOrder == <<" ", "!", "#", "-", ".", "/">> \o DigitChars \o <<":", "?", "@">>
             \o UpperChars \o <<"_">> \o LowerChars \o <<"é">>

Ord(c) == CHOOSE i \in 1..Len(CodeOrder) : CodeOrder[i] = c

\* a < b for two strings, as Python compares them
RECURSIVE StrLess(_, _)
StrLess(a, b) ==
    IF b = <<>> THEN FALSE
    ELSE IF a = <<>> THEN TRUE
    ELSE IF Head(a) = Head(b) THEN StrLess(Tail(a), Tail(b))
    ELSE Ord(Head(a)) < Ord(Head(b))

\* sorted(S) for a set of strings
RECURSIVE Sorted(_)
Sorted(S) ==
    IF S = {} THEN <<>>
    ELSE LET m == CHOOSE x \in S : \A y \in S \ {x} : StrLess(x, y)
         IN  <<m>> \o Sorted(S \ {m})

(***************************************************************************)
(* Filename Slugifier, set-based variant                                   *)
(***************************************************************************)
STORY_FILENAME_MAX_LENGTH == 80

DotHtml == <<".", "h", "t", "m", "l">>
StorySlug == <<"s", "t", "o", "r", "y">>

\* re.sub(r"[^A-Za-z0-9]+", "-", s): each maximal run of other characters
\* becomes one hyphen: the first character of a run is replaced, the others
\* of the run are dropped
SubNonAlnum(s) ==
    LET marked == [i \in 1..Len(s) |->
                     IF IsAlnum(s[i]) THEN s[i]
                     ELSE IF i = 1 \/ IsAlnum(s[i - 1]) THEN "-"
                     ELSE ""]
    IN  SelectSeq(marked, LAMBDA c : c # "")

\* lines 142-145: the slug before uniqueness resolution
Slug(title) ==
    LET slug == Lower(StripChar(SubNonAlnum(title), "-"))
        nonEmpty == IF slug = <<>> THEN StorySlug ELSE slug
    IN  SliceTo(nonEmpty, STORY_FILENAME_MAX_LENGTH)

\* the candidate with the suffix appended to the untruncated slug
Candidate_NoTruncation(slug, counter) ==
    IF counter = 1 THEN slug
    ELSE slug \o <<"-">> \o Str(counter)

\* the candidate truncated after the suffix was appended
Candidate_TruncatedAfter(slug, counter) ==
    IF counter = 1 THEN slug
    ELSE SliceTo(slug \o <<"-">> \o Str(counter), STORY_FILENAME_MAX_LENGTH)

\* lines 151-153: the candidate the loop body builds for a counter >= 2;
\* line 147 for counter = 1
Candidate(slug, counter) ==
    IF counter = 1 THEN slug
    ELSE LET suffix == <<"-">> \o Str(counter)
             base == SliceTo(slug, STORY_FILENAME_MAX_LENGTH - Len(suffix))
         IN  base \o suffix

\* Largest counter the model lets the collision loop reach; 0 is returned
\* when the loop is still running there.
MaxCounter == 14

\* the loop never entered: the slug is taken whether used or not
FreeCounter_NoLoop(slug, used, counter) == counter

\* lines 148-153: the counter at which the while loop exits
RECURSIVE FreeCounter(_, _, _)
FreeCounter(slug, used, counter) ==
    IF Candidate(slug, counter) \notin used THEN counter
    ELSE IF counter >= MaxCounter THEN 0
    ELSE FreeCounter(slug, used, counter + 1)

\* sanitize_filename: the chosen name, the file name returned, the updated
\* used_names and the number of loop iterations
sanitize_filename(title, used_names) ==
    LET slug == Slug(title)
        counter == FreeCounter(slug, used_names, 1)
        candidate == Candidate(slug, counter)
    IN  [ended |-> counter # 0,
         slug |-> slug,
         candidate |-> candidate,
         file_name |-> candidate \o DotHtml,
         used_names |-> used_names \cup {candidate},
         probes |-> counter - 1]

(***************************************************************************)
(* Optional values and XML elements                                        *)
(***************************************************************************)
\* Python None where a string is optional; no string equals it
None == <<"None">>

\* the rel value "alternate"
Alternate == <<"a", "l", "t", "e", "r", "n", "a", "t", "e">>

\* truth value of an Optional[str]
Truthy(s) == s # None /\ s # <<>>

\* An element is [tag, text, href, rel, children].  tag is [ns, name] as
\* ElementTree's "{ns}name"; text, href and rel are None when absent.
Elem(ns, name, text, href, rel, children) ==
    [tag |-> [ns |-> ns, name |-> name], text |-> text, href |-> href,
     rel |-> rel, children |-> children]

\* a plain child <name>text</name>
Field(name, text) == Elem("", name, text, None, None, <<>>)

\* lower-case form of the element names that occur in the documents
TagLower(name) ==
    CASE name = "pubDate" -> "pubdate"
      [] name = "Link" -> "link"
      [] name = "ITEM" -> "item"
      [] name = "Title" -> "title"
      [] OTHER -> name

(***************************************************************************)
(* Feed Parser, set-based variant                                          *)
(***************************************************************************)
UntitledStory == <<"U", "n", "t", "i", "t", "l", "e", "d", " ", "S", "t", "o", "r", "y">>

\* strip_namespace(child.tag).lower(): the local name, lower-cased
strip_namespace(tag) == TagLower(tag.name)

\* the elements of a sequence that satisfy a test, in order
RECURSIVE ChildrenNamed(_, _)
ChildrenNamed(children, names) ==
    IF children = <<>> THEN <<>>
    ELSE LET rest == ChildrenNamed(Tail(children), names)
         IN  IF strip_namespace(Head(children).tag) \in names
             THEN <<Head(children)>> \o rest ELSE rest

\* find_first_child_text: the stripped text of the first child, in document
\* order, whose name is one of the candidates; None when there is none
find_first_child_text(element, candidate_names) ==
    LET matching == ChildrenNamed(element.children, candidate_names)
    IN  IF matching = <<>> THEN None
        ELSE LET text == IF Truthy(Head(matching).text) THEN Head(matching).text ELSE <<>>
             IN  Strip(text)

\* get_atom_link: href of the first link child with an href and rel alternate
RECURSIVE AtomLinkOf(_)
AtomLinkOf(links) ==
    IF links = <<>> THEN None
    ELSE LET child == Head(links)
             rel == IF child.rel = None THEN Alternate ELSE child.rel
         IN  IF Truthy(child.href) /\ rel = Alternate THEN child.href
             ELSE AtomLinkOf(Tail(links))

get_atom_link(element) == AtomLinkOf(ChildrenNamed(element.children, {"link"}))

\* a or b for Optional[str]
OrElse(a, b) == IF Truthy(a) THEN a ELSE b

\* lines 101-115: the Story of one RSS item
RssStory(item, feed_title) ==
    [title |-> OrElse(find_first_child_text(item, {"title"}), UntitledStory),
     link |-> find_first_child_text(item, {"link", "guid"}),
     description |-> find_first_child_text(item, {"description", "encoded", "summary", "content"}),
     published |-> find_first_child_text(item, {"pubdate", "published", "updated"}),
     feed_title |-> feed_title,
     file_name |-> <<>>]

\* lines 121-135: the Story of one Atom entry
AtomStory(entry, feed_title) ==
    [title |-> OrElse(find_first_child_text(entry, {"title"}), UntitledStory),
     link |-> get_atom_link(entry),
     description |-> find_first_child_text(entry, {"content", "summary"}),
     published |-> find_first_child_text(entry, {"updated", "published"}),
     feed_title |-> feed_title,
     file_name |-> <<>>]

\* line 98: the channel element, or the root when there is none
RssChannel(root) ==
    LET channels == ChildrenNamed(root.children, {"channel"})
    IN  IF channels = <<>> THEN root ELSE Head(channels)

\* line 100: the item children of the channel
RssItems(root) == ChildrenNamed(RssChannel(root).children, {"item"})

\* parse_feed: [ok, feed_title, stories]; ok is FALSE where the code raises
\* RuntimeError (XML parse error, unsupported root element)
parse_feed(doc) ==
    IF ~doc.wellformed THEN [ok |-> FALSE, feed_title |-> None, stories |-> <<>>]
    ELSE LET root == doc.root
             root_name == strip_namespace(root.tag)
         IN  IF root_name = "rss"
             THEN LET feed_title == find_first_child_text(RssChannel(root), {"title"})
                      items == RssItems(root)
                  IN  [ok |-> TRUE, feed_title |-> feed_title,
                       stories |-> [i \in 1..Len(items) |-> RssStory(items[i], feed_title)]]
             ELSE IF root_name = "feed"
             THEN LET feed_title == find_first_child_text(root, {"title"})
                      entries == ChildrenNamed(root.children, {"entry"})
                  IN  [ok |-> TRUE, feed_title |-> feed_title,
                       stories |-> [i \in 1..Len(entries) |-> AtomStory(entries[i], feed_title)]]
             ELSE [ok |-> FALSE, feed_title |-> None, stories |-> <<>>]

(***************************************************************************)
(* Blacklist Filter, set-based variant                                     *)
(***************************************************************************)
FoolCom == <<"f", "o", "o", "l", ".", "c", "o", "m">>
LendingTreeCom == <<"l", "e", "n", "d", "i", "n", "g", "t", "r", "e", "e", ".", "c", "o", "m">>

DOMAIN_BLACKLIST == {FoolCom}

\* characters urlsplit accepts in a scheme
IsSchemeChar(c) == IsAlnum(c) \/ c \in {"+", "-", "."}

\* urllib.parse.urlparse(link).netloc: the text between "//" and the first
\* of "/", "?", "#", after an optional scheme
Netloc(link) ==
    LET url0 == LStripChar(link, " ")
        i == Find(url0, ":")
        hasScheme == /\ i > 0
                     /\ IsLower(url0[1]) \/ IsUpper(url0[1])
                     /\ \A j \in 1..i : IsSchemeChar(url0[j])
        url == IF hasScheme THEN SliceFrom(url0, i + 1) ELSE url0
    IN  IF SliceTo(url, 2) = <<"/", "/">>
        THEN LET rest == SliceFrom(url, 2)
                 ends == {k \in 1..Len(rest) : rest[k] \in {"/", "?", "#"}}
                 delim == IF ends = {} THEN Len(rest) + 1
                          ELSE CHOOSE k \in ends : \A m \in ends : k <= m
             IN  SubSeq(rest, 1, delim - 1)
        ELSE <<>>

\* urllib.parse.urlparse(link).hostname: netloc without user info and port,
\* lower-cased; None when empty
Hostname(link) ==
    LET netloc == Netloc(link)
        hostinfo == SliceFrom(netloc, RFind(netloc, "@") + 1)
        colon == Find(hostinfo, ":")
        host == IF colon < 0 THEN hostinfo ELSE SliceTo(hostinfo, colon)
    IN  IF host = <<>> THEN None ELSE Lower(host)

\* the blacklist test by substring of the link instead of by hostname
is_blacklisted_substring(link, blacklist) ==
    IF ~Truthy(link) THEN FALSE
    ELSE \E domain \in blacklist : Contains(link, domain)

\* is_blacklisted(link, blacklist)
is_blacklisted(link, blacklist) ==
    IF ~Truthy(link) THEN FALSE
    ELSE LET hostname == Hostname(link)
         IN  IF ~Truthy(hostname) THEN FALSE
             ELSE \E domain \in blacklist :
                     hostname = domain \/ EndsWith(hostname, <<".">> \o domain)

(***************************************************************************)
(* Exists-check variant: blacklist, parser, slug and story path            *)
(***************************************************************************)
BLACKLISTED_DOMAINS == {FoolCom, LendingTreeCom}

Untitled == <<"U", "n", "t", "i", "t", "l", "e", "d">>
NoLink == <<"N", "o", " ", "l", "i", "n", "k", " ", "a", "v", "a", "i", "l", "a", "b", "l", "e">>

\* _is_blacklisted(url): a domain occurs anywhere in the URL text
_is_blacklisted(url) == \E domain \in BLACKLISTED_DOMAINS : Contains(url, domain)

\* _local_name(tag): the local name, case kept
_local_name(tag) == tag.name

\* _iter_children(parent, name)
RECURSIVE IterChildren(_, _)
IterChildren(children, name) ==
    IF children = <<>> THEN <<>>
    ELSE LET rest == IterChildren(Tail(children), name)
         IN  IF _local_name(Head(children).tag) = name
             THEN <<Head(children)>> \o rest ELSE rest

\* the first child of a sequence whose stripped text is non-empty
RECURSIVE FirstNonEmptyText(_)
FirstNonEmptyText(children) ==
    IF children = <<>> THEN <<>>
    ELSE LET child == Head(children)
         IN  IF Truthy(child.text) /\ Strip(child.text) # <<>> THEN Strip(child.text)
             ELSE FirstNonEmptyText(Tail(children))

\* _first_text(element, candidates): candidates tried in preference order
RECURSIVE _first_text(_, _)
_first_text(element, candidates) ==
    IF candidates = <<>> THEN <<>>
    ELSE LET text == FirstNonEmptyText(IterChildren(element.children, Head(candidates)))
         IN  IF text # <<>> THEN text ELSE _first_text(element, Tail(candidates))

\* lines 82-92 of _find_link: the loop over the link children; <<>> when the
\* loop ends without returning
RECURSIVE FindLinkLoop(_)
FindLinkLoop(links) ==
    IF links = <<>> THEN <<>>
    ELSE LET link_elem == Head(links)
             href == IF Truthy(link_elem.href) THEN Strip(link_elem.href) ELSE <<>>
             rel == link_elem.rel
         IN  IF rel \in {None, Alternate} /\ href # <<>> THEN href
             ELSE IF Truthy(link_elem.text) /\ Strip(link_elem.text) # <<>>
             THEN Strip(link_elem.text)
             ELSE FindLinkLoop(Tail(links))

\* _find_link(element)
_find_link(element) ==
    LET link_text == _first_text(element, <<"link">>)
    IN  IF link_text # <<>> THEN link_text
        ELSE LET looped == FindLinkLoop(IterChildren(element.children, "link"))
             IN  IF looped # <<>> THEN looped
                 ELSE _first_text(element, <<"guid", "id">>)

\* root.iter(): the element and its descendants in document order
RECURSIVE IterAll(_)
RECURSIVE IterSeq(_)
IterAll(element) == <<element>> \o IterSeq(element.children)
IterSeq(children) ==
    IF children = <<>> THEN <<>>
    ELSE IterAll(Head(children)) \o IterSeq(Tail(children))

\* the (title, link) pair of one item or entry
LegacyEntry(element, titles) ==
    [title |-> LET t == _first_text(element, titles) IN IF t # <<>> THEN t ELSE Untitled,
     link |-> LET l == _find_link(element) IN IF l # <<>> THEN l ELSE NoLink]

\* parse_feed_entries: [ok, entries]; ok is FALSE where the code raises
\* RuntimeError (invalid XML)
parse_feed_entries(doc) ==
    IF ~doc.wellformed THEN [ok |-> FALSE, entries |-> <<>>]
    ELSE LET all == IterAll(doc.root)
             items == IterChildren(all, "item")
             entries == IterChildren(all, "entry")
         IN  IF items # <<>>
             THEN [ok |-> TRUE,
                   entries |-> [i \in 1..Len(items) |-> LegacyEntry(items[i], <<"title", "dc:title">>)]]
             ELSE [ok |-> TRUE,
                   entries |-> [i \in 1..Len(entries) |-> LegacyEntry(entries[i], <<"title">>)]]

\* title.encode("ascii", "ignore").decode("ascii")
AsciiOnly(s) == SelectSeq(s, IsAscii)

\* _sanitize_title(title)
_sanitize_title(title) ==
    LET sanitized == StripChar(SubNonAlnum(AsciiOnly(title)), "-")
    IN  IF sanitized = <<>> THEN StorySlug ELSE sanitized

\* Largest suffix the model lets _story_path probe
MaxSuffix == 6

\* lines 140-145 of _story_path: the first suffix whose file does not exist
RECURSIVE FreeSuffix(_, _, _)
FreeSuffix(slug, existing, suffix) ==
    IF (slug \o <<"-">> \o Str(suffix) \o DotHtml) \notin existing THEN suffix
    ELSE IF suffix >= MaxSuffix THEN 0
    ELSE FreeSuffix(slug, existing, suffix + 1)

\* _story_path(base, title): the file name chosen given the names that exist
_story_path(existing, title) ==
    LET slug == _sanitize_title(title)
        candidate == slug \o DotHtml
    IN  IF candidate \notin existing THEN candidate
        ELSE slug \o <<"-">> \o Str(FreeSuffix(slug, existing, 1)) \o DotHtml

\* story.stem: the file name without its last extension
Stem(name) ==
    LET dot == RFind(name, ".")
    IN  IF dot > 0 THEN SliceTo(name, dot) ELSE name

\* str.replace("_", " ")
ReplaceUnderscore(s) == [i \in 1..Len(s) |-> IF s[i] = "_" THEN " " ELSE s[i]]

IndexHtml == <<"i", "n", "d", "e", "x", ".", "h", "t", "m", "l">>

\* the list generate_index_html writes for a stories directory
generate_index_html(existing) ==
    LET story_files == Sorted({name \in existing :
                                  EndsWith(name, DotHtml) /\ Lower(name) # IndexHtml})
    IN  [i \in 1..Len(story_files) |->
            [file_name |-> story_files[i],
             title |-> ReplaceUnderscore(Stem(story_files[i])),
             feed_title |-> None]]

(***************************************************************************)
(* Inputs: links, titles, feed documents, feed-list lines, old files       *)
(***************************************************************************)
L_ok == <<"h", "t", "t", "p", "s", ":", "/", "/", "o", "k", ".", "c", "o", "m", "/", "a">>
L_not == <<"h", "t", "t", "p", ":", "/", "/", "n", "o", "t", "f", "o", "o", "l", ".", "c", "o", "m", "/", "a">>
L_www == <<"h", "t", "t", "p", "s", ":", "/", "/", "w", "w", "w", ".", "f", "o", "o", "l", ".", "c", "o", "m", "/", "x">>
L_upper == <<"H", "T", "T", "P", "S", ":", "/", "/", "W", "W", "W", ".", "F", "O", "O", "L", ".", "C", "O", "M", "/">>
L_path == <<"h", "t", "t", "p", "s", ":", "/", "/", "o", "k", ".", "c", "o", "m", "/", "f", "o", "o", "l", ".", "c", "o", "m">>
L_sub == <<"h", "t", "t", "p", "s", ":", "/", "/", "s", "u", "b", ".", "f", "o", "o", "l", ".", "c", "o", "m", "?", "q">>
L_bare == <<"h", "t", "t", "p", "s", ":", "/", "/", "f", "o", "o", "l", ".", "c", "o", "m">>
L_port == <<"h", "t", "t", "p", "s", ":", "/", "/", "f", "o", "o", "l", ".", "c", "o", "m", ":", "8", "0", "/", "x">>
L_user == <<"h", "t", "t", "p", "s", ":", "/", "/", "f", "o", "o", "l", ".", "c", "o", "m", "@", "o", "k", ".", "c", "o", "m", "/">>
L_dot == <<"h", "t", "t", "p", "s", ":", "/", "/", "f", "o", "o", "l", ".", "c", "o", "m", ".", "/">>
L_evil == <<"h", "t", "t", "p", "s", ":", "/", "/", "f", "o", "o", "l", ".", "c", "o", "m", ".", "o", "k", ".", "c", "o", "m", "/">>
L_noscheme == <<"w", "w", "w", ".", "f", "o", "o", "l", ".", "c", "o", "m", "/", "x">>
L_lend == <<"h", "t", "t", "p", "s", ":", "/", "/", "l", "e", "n", "d", "i", "n", "g", "t", "r", "e", "e", ".", "c", "o", "m", "/", "x">>
G_1 == <<"g", "1">>
T_StocksRally == <<"S", "t", "o", "c", "k", "s", " ", "R", "a", "l", "l", "y">>
T_stocks_rally == <<" ", "s", "t", "o", "c", "k", "s", "-", "r", "a", "l", "l", "y", "!", " ">>
T_Index == <<"I", "n", "d", "e", "x">>
T_Cafe == <<"C", "a", "f", "é">>
T_Story == <<"S", "t", "o", "r", "y">>
T_A2 == <<"a", " ", "2">>
T_A == <<"a">>
T_Bang == <<"!", "!", "!">>
T_Accent == <<"é">>
FT_A == <<"F", "e", "e", "d", " ", "A">>
FT_News == <<" ", "N", "e", "w", "s", " ">>
Body == <<"b", "o", "d", "y">>
Date1 == <<"M", "o", "n">>
Date2 == <<"T", "u", "e">>
Line_ok == <<"h", "t", "t", "p", ":", "/", "/", "o", "k", ".", "c", "o", "m", "/", "f", " ">>
Line_fool == <<" ", "h", "t", "t", "p", ":", "/", "/", "f", "o", "o", "l", ".", "c", "o", "m", "/", "f">>
Line_comment == <<"#", " ", "x">>
Line_blank == <<" ">>
Rel_self == <<"s", "e", "l", "f">>
OldName1 == <<"s", "t", "o", "c", "k", "s", "-", "r", "a", "l", "l", "y", ".", "h", "t", "m", "l">>
OldName2 == <<"S", "t", "o", "c", "k", "s", "-", "R", "a", "l", "l", "y", ".", "h", "t", "m", "l">>
OldTitle == <<"o", "l", "d">>

\* an 80-character title that ends in "-2", and an 81-character title
T_Long2 == Rep("A", 78) \o <<"-", "2">>
T_Long81 == Rep("a", 80) \o <<"b">>

Item(children) == Elem("", "item", None, None, None, children)
Entry(children) == Elem("", "entry", None, None, None, children)
AtomLink(href, rel) == Elem("", "link", None, href, rel, <<>>)
Channel(children) == Elem("", "channel", None, None, None, children)
Root(name, children) == Elem("", name, None, None, None, children)
Document(root) == [wellformed |-> TRUE, root |-> root]

\* an RSS feed with a channel: duplicate titles, one story on a blacklisted host
D_Dup ==
    Document(Root("rss", <<Channel(<<
        Field("title", FT_A),
        Item(<<Field("title", T_StocksRally), Field("link", L_ok)>>),
        Item(<<Field("title", T_StocksRally), Field("link", L_not)>>),
        Item(<<Field("title", T_stocks_rally), Field("link", L_www)>>) >>)>>))

\* mixed-case element names, blacklisted hosts in upper case and as sub-domain
D_Black ==
    Document(Root("rss", <<Channel(<<
        Field("Title", FT_News),
        Item(<<Field("Title", T_Index), Field("Link", L_upper)>>),
        Item(<<Field("title", T_Index), Field("link", L_path)>>),
        Item(<<Field("title", T_Cafe), Field("link", L_sub)>>) >>)>>))

\* items directly under the root; lower-preference children first, empty
\* higher-preference children, a namespaced child
D_Order ==
    Document(Root("rss", <<
        Item(<<Field("guid", G_1), Field("link", L_bare), Field("title", T_A),
               Field("updated", Date2), Field("pubDate", Date1)>>),
        Item(<<Field("link", <<>>), Field("guid", L_ok), Field("title", <<" ">>),
               Field("description", None),
               Elem("c", "encoded", Body, None, None, <<>>)>>) >>))

\* an RSS feed whose links carry a port and a bare blacklisted host
D_Ports ==
    Document(Root("rss", <<Channel(<<
        Item(<<Field("title", T_A2), Field("link", L_port)>>),
        Item(<<Field("title", T_A), Field("link", L_bare)>>),
        Item(<<Field("title", T_A), Field("link", L_lend)>>) >>)>>))

\* an Atom feed
D_Atom ==
    Document(Elem("a", "feed", None, None, None, <<
        Field("title", FT_A),
        Entry(<<Field("title", T_Story), AtomLink(L_user, None)>>),
        Entry(<<Field("title", T_Bang), AtomLink(L_dot, Rel_self), AtomLink(L_evil, Alternate)>>),
        Entry(<<AtomLink(L_noscheme, Alternate), Field("id", G_1)>>) >>))

\* a well-formed document that is neither RSS nor Atom, with an item inside
D_Html ==
    Document(Root("html", <<Root("body", <<
        Item(<<Field("title", T_Index), Field("link", L_ok)>>) >>)>>))

\* a feed without stories
D_Empty == Document(Root("rss", <<Channel(<<Field("title", FT_A)>>)>>))

\* bytes that are not well-formed XML
D_Malformed == [wellformed |-> FALSE, root |-> Root("rss", <<>>)]

Docs == {D_Dup, D_Black, D_Order, D_Ports, D_Atom, D_Html, D_Empty, D_Malformed}

\* the lines a feed list is made of; a URL that names a blacklisted domain
\* is among them for the one reader that tests the URL, iter_feed_urls
Lines(v) ==
    IF v = "exists" THEN {Line_ok, Line_fool, Line_comment, Line_blank}
    ELSE {Line_ok, Line_comment, Line_blank}

\* titles handed to the slugifier on its own
SlugTitles == {T_Long2, T_Long81, T_StocksRally, T_stocks_rally, T_Accent}

\* bounds of the model
MaxLines == 2
MaxRuns == 2
MaxCalls == 10

\* what a story file holds: the story and the ordinal of the write
FileContent(title, link, seq) == [title |-> title, link |-> link, seq |-> seq]

EmptyDisk == [name \in {} |-> FileContent(<<>>, None, 0)]
OldDisk == [name \in {OldName1, OldName2} |-> FileContent(OldTitle, None, 0)]
OldIndex == <<[file_name |-> OldName1, title |-> OldTitle, feed_title |-> None]>>

\* path.write_text: the file is created or replaced
WriteFile(d, name, content) ==
    [n \in (DOMAIN d) \cup {name} |-> IF n = name THEN content ELSE d[n]]

\* all sequences over S of length at most n
SeqsUpTo(S, n) == UNION {[1..k -> S] : k \in 0..n}

(***************************************************************************)
(* Feed Source Reader                                                      *)
(***************************************************************************)
\* read_feed_urls: stripped lines that are neither blank nor comments
RECURSIVE read_feed_urls(_)
read_feed_urls(lines) ==
    IF lines = <<>> THEN <<>>
    ELSE LET line == Strip(Head(lines))
             rest == read_feed_urls(Tail(lines))
         IN  IF line = <<>> \/ StartsWith(line, <<"#">>) THEN rest
             ELSE <<line>> \o rest

\* iter_feed_urls: as above, and lines naming a blacklisted domain are skipped
RECURSIVE iter_feed_urls(_)
iter_feed_urls(lines) ==
    IF lines = <<>> THEN <<>>
    ELSE LET url == Strip(Head(lines))
             rest == iter_feed_urls(Tail(lines))
         IN  IF url = <<>> \/ StartsWith(url, <<"#">>) THEN rest
             ELSE IF _is_blacklisted(url) THEN rest
             ELSE <<url>> \o rest

(***************************************************************************)
(* Initial states                                                          *)
(***************************************************************************)
NoCall == [title |-> <<>>, before |-> {}, ended |-> TRUE, slug |-> <<>>,
           candidate |-> <<>>, file_name |-> <<>>, probes |-> 0, calls |-> 0]

\* the state a run of either script starts from
RunStart(v, exists, lines, d, index, written, n) ==
    /\ variant = v
    /\ pc = "start"
    /\ feedsFileExists = exists
    /\ feedLines = lines
    /\ feed_urls = <<>>
    /\ idx = 0
    /\ queue = <<>>
    /\ all_stories = <<>>
    /\ used_filenames = {}
    /\ disk = d
    /\ indexFile = index
    /\ exitCode = -1
    /\ nwritten = written
    /\ runWritten = 0
    /\ fetchLog = <<>>
    /\ parsedLog = <<>>
    /\ runs = n
    /\ served = <<>>
    /\ last = NoCall

Init ==
    \E v \in {"set", "exists"}, exists \in BOOLEAN, old \in BOOLEAN :
      \E lines \in SeqsUpTo(Lines(v), MaxLines) :
        RunStart(v, exists, lines,
                 IF old THEN OldDisk ELSE EmptyDisk,
                 IF old THEN <<OldIndex>> ELSE <<>>, 0, 0)

(***************************************************************************)
(* The network: what a feed URL answers.  The first run on a directory     *)
(* meets any answer; a later run meets the answers of the first, so that   *)
(* repeated runs are runs over the same feed contents.                     *)
(***************************************************************************)
Answer(kind, doc) == [kind |-> kind, doc |-> doc]

Answers(kind, doc) ==
    IF runs = 0
    THEN served' = Append(served, Answer(kind, doc))
    ELSE served[idx + 1] = Answer(kind, doc) /\ UNCHANGED served

(***************************************************************************)
(* main, set-based variant                                                 *)
(***************************************************************************)
\* lines 257-266: the feed list is read; a missing file ends the run with 1
Main_ReadFeeds ==
    /\ variant = "set" /\ pc = "start"
    /\ IF ~feedsFileExists
       THEN /\ pc' = "done"
            /\ exitCode' = 1
            /\ UNCHANGED feed_urls
       ELSE /\ pc' = "feeds"
            /\ feed_urls' = read_feed_urls(feedLines)
            /\ UNCHANGED exitCode
    /\ UNCHANGED <<variant, feedsFileExists, feedLines, idx, queue, all_stories,
                   used_filenames, disk, indexFile, nwritten, runWritten,
                   fetchLog, parsedLog, runs, served, last>>

\* lines 270-277: the feed is downloaded and parsed; a RuntimeError of
\* parse_feed is printed and the loop continues
Main_FetchOk ==
    /\ variant = "set" /\ pc = "feeds" /\ idx < Len(feed_urls)
    /\ \E doc \in Docs :
        LET parsed == parse_feed(doc)
            stories == [i \in 1..Len(parsed.stories) |->
                           [parsed.stories[i] EXCEPT !.feed_title = parsed.feed_title]]
        IN  /\ Answers("document", doc)
            /\ fetchLog' = Append(fetchLog, idx + 1)
            /\ IF parsed.ok /\ stories # <<>>
               THEN /\ pc' = "stories"
                    /\ queue' = stories
                    /\ parsedLog' = parsedLog \o stories
                    /\ UNCHANGED idx
               ELSE /\ idx' = idx + 1
                    /\ UNCHANGED <<pc, queue, parsedLog>>
    /\ UNCHANGED <<variant, feedsFileExists, feedLines, feed_urls, all_stories,
                   used_filenames, disk, indexFile, exitCode, nwritten,
                   runWritten, runs, last>>

\* lines 49-54, 272-274: urlopen raises URLError (HTTP error status, refused
\* or unreachable host); fetch_feed turns it into RuntimeError, main prints it
\* and continues
Main_FetchURLError ==
    /\ variant = "set" /\ pc = "feeds" /\ idx < Len(feed_urls)
    /\ Answers("URLError", D_Malformed)
    /\ fetchLog' = Append(fetchLog, idx + 1)
    /\ idx' = idx + 1
    /\ UNCHANGED <<variant, pc, feedsFileExists, feedLines, feed_urls, queue,
                   all_stories, used_filenames, disk, indexFile, exitCode,
                   nwritten, runWritten, parsedLog, runs, last>>

\* lines 51-53, 272: the response stalls or breaks off; urlopen or read raises
\* TimeoutError, RemoteDisconnected or IncompleteRead, none of them a
\* URLError or a RuntimeError, and the exception leaves main
Main_FetchOtherError ==
    /\ variant = "set" /\ pc = "feeds" /\ idx < Len(feed_urls)
    /\ Answers("OtherError", D_Malformed)
    /\ fetchLog' = Append(fetchLog, idx + 1)
    /\ pc' = "crashed"
    /\ exitCode' = 1
    /\ UNCHANGED <<variant, feedsFileExists, feedLines, feed_urls, idx, queue,
                   all_stories, used_filenames, disk, indexFile, nwritten,
                   runWritten, parsedLog, runs, last>>

\* lines 276-287: one story of the current feed
Main_Story ==
    /\ variant = "set" /\ pc = "stories" /\ queue # <<>>
    /\ LET story == Head(queue)
           call == sanitize_filename(story.title, used_filenames)
           named == [story EXCEPT !.file_name = call.file_name]
       IN  IF is_blacklisted(story.link, DOMAIN_BLACKLIST)
           THEN UNCHANGED <<all_stories, used_filenames, disk, nwritten, runWritten>>
           ELSE /\ call.ended
                /\ used_filenames' = call.used_names
                /\ disk' = WriteFile(disk, call.file_name,
                                     FileContent(story.title, story.link, nwritten + 1))
                /\ nwritten' = nwritten + 1
                /\ runWritten' = runWritten + 1
                /\ all_stories' = Append(all_stories, named)
    /\ queue' = Tail(queue)
    /\ IF Tail(queue) = <<>>
       THEN pc' = "feeds" /\ idx' = idx + 1
       ELSE UNCHANGED <<pc, idx>>
    /\ UNCHANGED <<variant, feedsFileExists, feedLines, feed_urls, indexFile,
                   exitCode, fetchLog, parsedLog, runs, served, last>>

\* write_index: one entry per story, in list order
write_index(stories) ==
    [i \in 1..Len(stories) |->
        [file_name |-> stories[i].file_name, title |-> stories[i].title,
         feed_title |-> stories[i].feed_title]]

\* lines 289-296: no story means exit 1, else the index is written
Main_Finish ==
    /\ variant = "set" /\ pc = "feeds" /\ idx = Len(feed_urls)
    /\ pc' = "done"
    /\ IF all_stories = <<>>
       THEN exitCode' = 1 /\ UNCHANGED indexFile
       ELSE exitCode' = 0 /\ indexFile' = <<write_index(all_stories)>>
    /\ UNCHANGED <<variant, feedsFileExists, feedLines, feed_urls, idx, queue,
                   all_stories, used_filenames, disk, nwritten, runWritten,
                   fetchLog, parsedLog, runs, served, last>>

(***************************************************************************)
(* main, exists-check variant                                              *)
(***************************************************************************)
\* a missing feed list taken for an empty one
Legacy_ReadFeeds_MissingAsEmpty ==
    /\ variant = "exists" /\ pc = "start"
    /\ pc' = "feeds"
    /\ feed_urls' = IF feedsFileExists THEN iter_feed_urls(feedLines) ELSE <<>>
    /\ UNCHANGED <<variant, feedsFileExists, feedLines, idx, queue, all_stories,
                   used_filenames, disk, indexFile, exitCode, nwritten, runWritten,
                   fetchLog, parsedLog, runs, served, last>>

\* lines 193, 28-40: the first step of the for loop opens the feed list; a
\* missing file ends the process with 1
Legacy_ReadFeeds ==
    /\ variant = "exists" /\ pc = "start"
    /\ IF ~feedsFileExists
       THEN /\ pc' = "done"
            /\ exitCode' = 1
            /\ UNCHANGED feed_urls
       ELSE /\ pc' = "feeds"
            /\ feed_urls' = iter_feed_urls(feedLines)
            /\ UNCHANGED exitCode
    /\ UNCHANGED <<variant, feedsFileExists, feedLines, idx, queue, all_stories,
                   used_filenames, disk, indexFile, nwritten, runWritten,
                   fetchLog, parsedLog, runs, served, last>>

\* lines 198-213: the feed is downloaded and parsed; invalid XML is printed
\* and the loop continues
Legacy_FetchOk ==
    /\ variant = "exists" /\ pc = "feeds" /\ idx < Len(feed_urls)
    /\ \E doc \in Docs :
        LET parsed == parse_feed_entries(doc)
        IN  /\ Answers("document", doc)
            /\ fetchLog' = Append(fetchLog, idx + 1)
            /\ IF parsed.ok /\ parsed.entries # <<>>
               THEN /\ pc' = "stories"
                    /\ queue' = parsed.entries
                    /\ parsedLog' = parsedLog \o parsed.entries
                    /\ UNCHANGED idx
               ELSE /\ idx' = idx + 1
                    /\ UNCHANGED <<pc, queue, parsedLog>>
    /\ UNCHANGED <<variant, feedsFileExists, feedLines, feed_urls, all_stories,
                   used_filenames, disk, indexFile, exitCode, nwritten,
                   runWritten, runs, last>>

\* lines 49-52, 200-202: HTTPError or URLError becomes RuntimeError, main
\* prints it and goes on to the next feed
Legacy_FetchURLError ==
    /\ variant = "exists" /\ pc = "feeds" /\ idx < Len(feed_urls)
    /\ Answers("URLError", D_Malformed)
    /\ fetchLog' = Append(fetchLog, idx + 1)
    /\ idx' = idx + 1
    /\ UNCHANGED <<variant, pc, feedsFileExists, feedLines, feed_urls, queue,
                   all_stories, used_filenames, disk, indexFile, exitCode,
                   nwritten, runWritten, parsedLog, runs, last>>

\* lines 46-48, 199: the 30 second timeout expires while the response is
\* awaited or read, or the connection breaks off; the TimeoutError,
\* RemoteDisconnected or IncompleteRead is neither HTTPError nor URLError and
\* leaves main
Legacy_FetchOtherError ==
    /\ variant = "exists" /\ pc = "feeds" /\ idx < Len(feed_urls)
    /\ Answers("OtherError", D_Malformed)
    /\ fetchLog' = Append(fetchLog, idx + 1)
    /\ pc' = "crashed"
    /\ exitCode' = 1
    /\ UNCHANGED <<variant, feedsFileExists, feedLines, feed_urls, idx, queue,
                   all_stories, used_filenames, disk, indexFile, nwritten,
                   runWritten, parsedLog, runs, last>>

\* lines 214-220: one entry of the current feed
Legacy_Story ==
    /\ variant = "exists" /\ pc = "stories" /\ queue # <<>>
    /\ LET entry == Head(queue)
           story_path == _story_path(DOMAIN disk, entry.title)
       IN  IF _is_blacklisted(entry.link)
           THEN UNCHANGED <<disk, nwritten, runWritten>>
           ELSE /\ disk' = WriteFile(disk, story_path,
                                     FileContent(entry.title, entry.link, nwritten + 1))
                /\ nwritten' = nwritten + 1
                /\ runWritten' = runWritten + 1
    /\ queue' = Tail(queue)
    /\ IF Tail(queue) = <<>>
       THEN pc' = "feeds" /\ idx' = idx + 1
       ELSE UNCHANGED <<pc, idx>>
    /\ UNCHANGED <<variant, feedsFileExists, feedLines, feed_urls, all_stories,
                   used_filenames, indexFile, exitCode, fetchLog, parsedLog,
                   runs, served, last>>

\* lines 222-223: the index is regenerated from the directory; exit 0
Legacy_Finish ==
    /\ variant = "exists" /\ pc = "feeds" /\ idx = Len(feed_urls)
    /\ pc' = "done"
    /\ exitCode' = 0
    /\ indexFile' = <<generate_index_html(DOMAIN disk)>>
    /\ UNCHANGED <<variant, feedsFileExists, feedLines, feed_urls, idx, queue,
                   all_stories, used_filenames, disk, nwritten, runWritten,
                   fetchLog, parsedLog, runs, served, last>>

\* the script is started again on the directory the previous run left
Rerun ==
    /\ pc \in {"done", "crashed"}
    /\ runs + 1 < MaxRuns
    /\ pc' = "start"
    /\ feed_urls' = <<>>
    /\ idx' = 0
    /\ queue' = <<>>
    /\ all_stories' = <<>>
    /\ used_filenames' = {}
    /\ exitCode' = -1
    /\ runWritten' = 0
    /\ fetchLog' = <<>>
    /\ parsedLog' = <<>>
    /\ runs' = runs + 1
    /\ UNCHANGED <<variant, feedsFileExists, feedLines, disk, indexFile, nwritten,
                   served, last>>

Next ==
    \/ Main_ReadFeeds
    \/ Main_FetchOk
    \/ Main_FetchURLError
    \/ Main_FetchOtherError
    \/ Main_Story
    \/ Main_Finish
    \/ Legacy_ReadFeeds
    \/ Legacy_FetchOk
    \/ Legacy_FetchURLError
    \/ Legacy_FetchOtherError
    \/ Legacy_Story
    \/ Legacy_Finish
    \/ Rerun

Spec == Init /\ [][Next]_vars

(***************************************************************************)
(* The slugifier on its own: sanitize_filename called on a sequence of     *)
(* titles with one used_filenames set that starts empty, as line 284 of    *)
(* the set-based main calls it; nwritten counts the calls                  *)
(***************************************************************************)
InitSlug == RunStart("slug", TRUE, <<>>, EmptyDisk, <<>>, 0, 0)

SlugStory ==
    /\ variant = "slug"
    /\ nwritten < MaxCalls
    /\ \E title \in SlugTitles :
        LET call == sanitize_filename(title, used_filenames)
        IN  /\ last' = [title |-> title, before |-> used_filenames,
                        ended |-> call.ended, slug |-> call.slug,
                        candidate |-> call.candidate, file_name |-> call.file_name,
                        probes |-> call.probes, calls |-> nwritten + 1]
            /\ used_filenames' = call.used_names
            /\ nwritten' = nwritten + 1
    /\ UNCHANGED <<variant, pc, feedsFileExists, feedLines, feed_urls, idx, queue,
                   all_stories, disk, indexFile, exitCode, runWritten, fetchLog,
                   parsedLog, runs, served>>

NextSlug == SlugStory

SpecSlug == InitSlug /\ [][NextSlug]_vars

(***************************************************************************)
(* Properties                                                              *)
(***************************************************************************)
\* a run has ended, normally or by an exception that left main
Ended == pc \in {"done", "crashed"}

\* the stories of this run's feeds whose link is not blacklisted, in
\* discovery order
Accepted == SelectSeq(parsedLog, LAMBDA st : ~is_blacklisted(st.link, DOMAIN_BLACKLIST))

\* the file names of the index entries
IndexNames == IF indexFile = <<>> THEN <<>>
              ELSE [i \in 1..Len(indexFile[1]) |-> indexFile[1][i].file_name]

\* the files written by the current run
RunFiles == {f \in DOMAIN disk : disk[f].seq > nwritten - runWritten}

\* C1: when a run of the set-based main has ended, every parsed story whose
\* link is not blacklisted has a story file of its own and is listed once in
\* the index, and the index lists these stories in discovery order.
C1_EveryStoryWrittenAndIndexed ==
    (variant = "set" /\ Ended /\ Accepted # <<>>) =>
        /\ indexFile # <<>>
        /\ Len(indexFile[1]) = Len(Accepted)
        /\ \A i \in 1..Len(Accepted) :
            LET entry == indexFile[1][i]
            IN  /\ entry.title = Accepted[i].title
                /\ entry.file_name \in RunFiles
                /\ disk[entry.file_name].title = Accepted[i].title
                /\ disk[entry.file_name].link = Accepted[i].link
        /\ \A i, j \in 1..Len(Accepted) :
            i # j => indexFile[1][i].file_name # indexFile[1][j].file_name
        /\ Cardinality(RunFiles) = Len(Accepted)

\* C2: over any sequence of sanitize_filename calls on one used_names set
\* that starts empty, the returned file names are pairwise distinct (as many
\* names as calls), each is the chosen name plus ".html", and the chosen name
\* was not in used_names before the call and is in it afterwards.
C2_DistinctFilenames ==
    variant = "slug" =>
        /\ Cardinality(used_filenames) = nwritten
        /\ last.calls > 0 =>
            /\ last.ended
            /\ last.candidate \notin last.before
            /\ last.candidate \in used_filenames
            /\ last.file_name = last.candidate \o DotHtml

\* two titles with the same slug were given different names
C2_Witness ==
    /\ variant = "slug"
    /\ nwritten >= 2
    /\ last.probes >= 1
    /\ last.slug \in last.before

\* C3: in the set-based main a failure of one feed never aborts the run:
\* when the run has ended every feed of the list was fetched, and if stories
\* were written the index lists them and the exit code is 0.
C3_FeedFailureNeverAborts ==
    (variant = "set" /\ Ended /\ feedsFileExists) =>
        /\ pc = "done"
        /\ fetchLog = [i \in 1..Len(feed_urls) |-> i]
        /\ runWritten > 0 =>
            /\ exitCode = 0
            /\ indexFile # <<>>
            /\ Len(indexFile[1]) = runWritten

\* C4: for both scripts, when the feed list exists and main has run to its
\* end, the exit code is 0 exactly when at least one story was written.
C4_ExitCodeIffStoryWritten ==
    (pc = "done" /\ feedsFileExists) => (exitCode = 0 <=> runWritten > 0)

\* the claim's test on a link: the lower-cased hostname is a blacklisted
\* domain or ends with "." and a blacklisted domain
HostBlacklisted(link) ==
    /\ Truthy(link)
    /\ Truthy(Hostname(link))
    /\ \E domain \in DOMAIN_BLACKLIST :
        \/ Hostname(link) = domain
        \/ EndsWith(Hostname(link), <<".">> \o domain)

\* the stories of this run that the story loop has already handled
Handled == SubSeq(parsedLog, 1, Len(parsedLog) - Len(queue))

\* a story file of this run holds this story
InFiles(story) ==
    \E f \in RunFiles : disk[f].title = story.title /\ disk[f].link = story.link

\* the index lists a file of this run that holds this story
InIndex(story) ==
    \E i \in 1..Len(IndexNames) :
        /\ IndexNames[i] \in RunFiles
        /\ indexFile[1][i].title = story.title
        /\ disk[IndexNames[i]].link = story.link

C6_MissingFeedList ==
    /\ [](~feedsFileExists =>
            /\ fetchLog = <<>>
            /\ runWritten = 0
            /\ pc \in {"start", "done"}
            /\ pc = "done" => exitCode = 1)
    /\ [][~feedsFileExists => UNCHANGED <<disk, indexFile>>]_vars

\* a run without feed list has ended on a directory with old files
C6_Witness ==
    /\ ~feedsFileExists /\ pc = "done" /\ exitCode = 1
    /\ disk = OldDisk /\ indexFile = <<OldIndex>>

\* the characters a chosen name may consist of
NameChars == LowerSet \cup DigitSet \cup {"-"}

\* C7: the name sanitize_filename chooses is non-empty, consists of
\* characters in [a-z0-9-] and is at most 80 characters long; with a
\* collision suffix -N it is the slug cut to 80 minus the suffix length,
\* followed by the suffix.
C7_NameSafeAndBounded ==
    (variant = "slug" /\ last.calls > 0) =>
        /\ last.candidate # <<>>
        /\ \A i \in 1..Len(last.candidate) : last.candidate[i] \in NameChars
        /\ Len(last.candidate) <= STORY_FILENAME_MAX_LENGTH
        /\ last.probes > 0 =>
            LET suffix == <<"-">> \o Str(last.probes + 1)
                base == SubSeq(last.candidate, 1, Len(last.candidate) - Len(suffix))
            IN  /\ EndsWith(last.candidate, suffix)
                /\ StartsWith(last.slug, base)
                /\ Len(base) = Min(Len(last.slug), STORY_FILENAME_MAX_LENGTH - Len(suffix))

\* an 80-character slug got a two-digit suffix and was cut to 77 characters
C7_Witness ==
    /\ variant = "slug"
    /\ last.probes >= 9
    /\ Len(last.slug) = STORY_FILENAME_MAX_LENGTH
    /\ Len(last.candidate) = STORY_FILENAME_MAX_LENGTH

\* the claim's reading of one RSS field: the stripped text of the first child,
\* in the preference order of the names, whose text is not empty
RECURSIVE PreferredText(_, _)
PreferredText(item, names) ==
    IF names = <<>> THEN <<>>
    ELSE LET named == ChildrenNamed(item.children, {Head(names)})
             texts == SelectSeq([i \in 1..Len(named) |->
                                    IF Truthy(named[i].text) THEN Strip(named[i].text) ELSE <<>>],
                                LAMBDA t : t # <<>>)
         IN  IF texts # <<>> THEN Head(texts) ELSE PreferredText(item, Tail(names))

\* the RSS items of the documents served to the set-based main
ServedRssItems ==
    UNION {Range(RssItems(served[i].doc.root)) :
             i \in {k \in 1..Len(served) :
                      /\ served[k].kind = "document"
                      /\ served[k].doc.wellformed
                      /\ strip_namespace(served[k].doc.root.tag) = "rss"}}

\* C8: for every RSS item the set-based parser met, whatever the order of
\* its children, link, description and published are the first non-empty text
\* in the preference order of their candidate names.
C8_PreferenceOrder ==
    variant = "set" =>
        \A item \in ServedRssItems :
            LET story == RssStory(item, None)
                link == PreferredText(item, <<"link", "guid">>)
                description == PreferredText(item, <<"description", "encoded", "summary", "content">>)
                published == PreferredText(item, <<"pubdate", "published", "updated">>)
            IN  /\ link # <<>> => story.link = link
                /\ description # <<>> => story.description = description
                /\ published # <<>> => story.published = published

\* C9: the collision loop of sanitize_filename ends; it runs at most
\* |used_names| + 1 times, and the candidates of the counters 2, 3, ... are
\* pairwise distinct, also where the slug is cut to make room for the suffix.
C9_CollisionLoopTerminates ==
    (variant = "slug" /\ last.calls > 0) =>
        /\ last.ended
        /\ last.probes <= Cardinality(last.before) + 1
        /\ \A m, n \in 2..MaxCounter :
            m # n => Candidate(last.slug, m) # Candidate(last.slug, n)

\* the loop ran once more than there were used names: the 80-character slug
\* ends in -2 and is its own candidate for counter 2
C9_Witness ==
    /\ variant = "slug"
    /\ last.calls > 0
    /\ last.probes = Cardinality(last.before) + 1
    /\ Candidate(last.slug, 2) = last.slug

\* every write of the exists-check main is still on disk
AllWritesKept == \A k \in 1..nwritten : \E f \in DOMAIN disk : disk[f].seq = k

\* C10: in the exists-check variant no write replaces a file, so every file
\* ever written is still there, and after a run the index lists every .html
\* file of the stories directory.
C10_NoOverwriteAndIndexComplete ==
    variant = "exists" =>
        /\ AllWritesKept
        /\ (pc = "done" /\ exitCode = 0) =>
              Range(IndexNames) = {f \in DOMAIN disk : EndsWith(f, DotHtml)}

====
